---------------------------- MODULE Spec2Model ----------------------------
(***************************************************************************)
(* A model of src/main.py: the news-aware question answering service.      *)
(*                                                                         *)
(* Text that the program inspects character by character (cache keys, the  *)
(* question given to the intent classifier, completion texts that are      *)
(* stripped) is a sequence of one-character strings.  Text that is only    *)
(* passed along (error messages, article fields) is a plain string.        *)
(***************************************************************************)
EXTENDS Integers, Sequences, FiniteSets, TLC

VARIABLES
    now,      \* the reading of time.time(), in whole seconds
    ticks,    \* how many times the clock has advanced (bounds the model)
    cache,    \* _cache: key -> [ts, data]
    origin,   \* history: key -> the parameters of the fetch_news call that stored the entry
    req,      \* slot -> the frame of the request handler running in it
    probe,    \* the question handed to looks_like_news_intent on its own
    verdict   \* what looks_like_news_intent answered for probe

vars == <<now, ticks, cache, origin, req, probe, verdict>>

----------------------------------------------------------------------------
(* Bounds of the model *)

\* how many times the clock may advance in one behaviour
MaxTicks == 2
\* how many request frames the server holds
MaxFrames == 2
\* the longest question handed to the classifier on its own
MaxQuestionLen == 4

----------------------------------------------------------------------------
(* Text *)

UpperCase == <<"A","B","C","D","E","F","G","H","I","J","K","L","M",
               "N","O","P","Q","R","S","T","U","V","W","X","Y","Z">>
LowerCase == <<"a","b","c","d","e","f","g","h","i","j","k","l","m",
               "n","o","p","q","r","s","t","u","v","w","x","y","z">>
DigitChars == <<"0","1","2","3","4","5","6","7","8","9">>
Whitespace == {" ", "\n", "\t"}

\* str.lower() on one character
LowerChar(c) ==
    IF \E i \in 1..Len(UpperCase) : UpperCase[i] = c
    THEN LowerCase[CHOOSE i \in 1..Len(UpperCase) : UpperCase[i] = c]
    ELSE c

\* str.lower()
Lower(s) == [i \in 1..Len(s) |-> LowerChar(s[i])]

\* k in s, for strings
Contains(k, s) ==
    \E i \in 0..(Len(s) - Len(k)) : SubSeq(s, i + 1, i + Len(k)) = k

\* str.strip()
RECURSIVE LStrip(_)
LStrip(s) == IF s # <<>> /\ Head(s) \in Whitespace THEN LStrip(Tail(s)) ELSE s
RECURSIVE RStrip(_)
RStrip(s) ==
    IF s # <<>> /\ s[Len(s)] \in Whitespace
    THEN RStrip(SubSeq(s, 1, Len(s) - 1)) ELSE s
Strip(s) == RStrip(LStrip(s))

\* the decimal digits an f-string writes for a non-negative int
RECURSIVE NatToStr(_)
NatToStr(n) ==
    IF n < 10 THEN <<DigitChars[n + 1]>>
    ELSE NatToStr(n \div 10) \o <<DigitChars[(n % 10) + 1]>>

\* f"{n}" for an int
IntToStr(n) == IF n < 0 THEN <<"-">> \o NatToStr(0 - n) ELSE NatToStr(n)

NVIDIA == <<"N","V","I","D","I","A">>
En == <<"e","n">>

----------------------------------------------------------------------------
(* The cache *)

CACHE_TTL_SECONDS == 180

\* Python's None as the result of get_cache, and a payload
NoneResult == [some |-> FALSE]
Some(d) == [some |-> TRUE, data |-> d]

\* get_cache with the comparison the wrong way round at the boundary
get_cache_ge(key) ==
    IF key \notin DOMAIN cache THEN NoneResult
    ELSE IF now - cache[key].ts >= CACHE_TTL_SECONDS THEN NoneResult
    ELSE Some(cache[key].data)

get_cache(key) ==
    IF key \notin DOMAIN cache THEN NoneResult
    ELSE IF now - cache[key].ts > CACHE_TTL_SECONDS THEN NoneResult
    ELSE Some(cache[key].data)

\* the mapping after set_cache(key, data)
set_cache(key, data) ==
    [k \in DOMAIN cache \cup {key} |->
        IF k = key THEN [ts |-> now, data |-> data] ELSE cache[k]]

\* the cache when fetch_news is left by an exception: the raise comes before
\* the call of set_cache
CacheAfterFailure_stored(key) == set_cache(key, <<>>)

CacheAfterFailure(key) == cache

\* `if cached:` -- None and the empty list are both falsy
Truthy(cached) == cached.some /\ cached.data # <<>>

\* f"news::{query}::{days}::{page_size}::{language}"
CacheKey(q) ==
    <<"n","e","w","s",":",":">> \o q.query \o <<":",":">> \o IntToStr(q.days)
        \o <<":",":">> \o IntToStr(q.page_size) \o <<":",":">> \o q.language


----------------------------------------------------------------------------
(* Inputs: request bodies and what the external services answer *)

\* the arguments ask_nvidia passes to fetch_news
AskArgs == [query |-> NVIDIA, days |-> 7, page_size |-> 6, language |-> En]

\* the NewsQuery bodies a client posts to /news: the parameters /ask uses,
\* and two bodies whose text fields hold the separator of the cache key
NewsQueries ==
    { AskArgs,
      [query |-> NVIDIA \o <<":",":","7">>, days |-> 7, page_size |-> 5,
       language |-> En],
      [query |-> NVIDIA, days |-> 7, page_size |-> 7,
       language |-> <<"5",":",":">> \o En] }

\* the questions a client posts to /ask
Questions ==
    { <<"W","h","a","t"," ","i","s"," ","C","U","D","A","?">>,
      <<"Q","3"," ","N","e","w","s","?">> }

\* Python's None as a field of a cleaned article
None == "None"

\* dict.get(k) on a JSON object; a key holding null reads like a missing key
Get(a, k) == IF k \in DOMAIN a THEN a[k] ELSE None

RawFull ==
    [title |-> "t1", url |-> "u1", source |-> [name |-> "s1"],
     publishedAt |-> "p1", description |-> "d1", content |-> "c1"]
RawBare == [title |-> "t2"]

\* the JSON bodies of a 2xx answer of the news API
RawResponses ==
    { [status |-> "ok"],
      [status |-> "ok", articles |-> <<>>],
      [status |-> "ok", articles |-> <<RawFull>>],
      [status |-> "ok", articles |-> <<RawBare, RawFull>>] }

\* one entry of `cleaned`
CleanArticle(a) ==
    [title |-> Get(a, "title"),
     url |-> Get(a, "url"),
     source |-> IF "source" \in DOMAIN a THEN Get(a.source, "name") ELSE None,
     publishedAt |-> Get(a, "publishedAt"),
     description |-> Get(a, "description"),
     content |-> Get(a, "content")]

\* raw.get("articles", []) or [], then the loop that fills `cleaned`
Cleaned(raw) ==
    LET articles == IF "articles" \in DOMAIN raw THEN raw.articles ELSE <<>>
    IN  [i \in 1..Len(articles) |-> CleanArticle(articles[i])]

CleanedLists == { Cleaned(raw) : raw \in RawResponses }

\* message.content of a completion
LlmTexts == { <<"a">>, <<" ","b","\n">> }

\* what requests.get / raise_for_status / resp.json() raise
NewsErrors == { "HTTPError", "Timeout" }
\* what client.chat.completions.create raises
LlmErrors == { "APIError" }

\* the classes an exception is an instance of
ClassesOf(e) ==
    CASE e = "HTTPError" -> {"HTTPError", "RequestException", "Exception"}
      [] e = "Timeout"   -> {"Timeout", "RequestException", "Exception"}
      [] OTHER           -> {e, "Exception"}

\* str(e)
StrOf(e) ==
    CASE e = "HTTPError" -> "500 Server Error"
      [] e = "Timeout"   -> "Read timed out"
      [] OTHER           -> "LLM API error"

NoArticlesMessage ==
    <<"N","o"," ","r","e","c","e","n","t"," ","r","e","l","e","v","a","n","t",
      " ","a","r","t","i","c","l","e","s"," ","f","o","u","n","d",".">>

----------------------------------------------------------------------------
(* The intent classifier *)

keywords ==
    << <<"l","a","t","e","s","t">>, <<"t","o","d","a","y">>,
       <<"t","h","i","s"," ","w","e","e","k">>, <<"r","e","c","e","n","t">>,
       <<"n","e","w","s">>, <<"a","n","n","o","u","n","c","e">>,
       <<"a","n","n","o","u","n","c","e","d">>,
       <<"e","a","r","n","i","n","g","s">>, <<"q","u","a","r","t","e","r">>,
       <<"q","1">>, <<"q","2">>, <<"q","3">>, <<"q","4">>,
       <<"r","e","v","e","n","u","e">>, <<"g","u","i","d","a","n","c","e">>,
       <<"p","r","e","s","s"," ","r","e","l","e","a","s","e">>,
       <<"l","a","u","n","c","h">>,
       <<"j","u","s","t"," ","r","e","l","e","a","s","e","d">> >>

\* the classifier without the lowering of the question
looks_like_news_intent_cased(q) ==
    \E i \in 1..Len(keywords) : Contains(keywords[i], q)

looks_like_news_intent(q) ==
    LET ql == Lower(q)
    IN  \E i \in 1..Len(keywords) : Contains(keywords[i], ql)

----------------------------------------------------------------------------
(* Request frames *)

Slots == 1..MaxFrames

NoQuery == [query |-> <<>>, days |-> 0, page_size |-> 0, language |-> <<>>]
NotSeen == [at |-> 0, present |-> FALSE, ts |-> 0, data |-> <<>>, by |-> NoQuery]
NoResponse == [none |-> TRUE]

IdleFrame ==
    [pc |-> "idle", ep |-> "none", q |-> NoQuery, question |-> <<>>,
     mode |-> "none", arts |-> <<>>, news_summary |-> <<>>,
     resp |-> NoResponse, log |-> <<>>, seen |-> NotSeen]

InFlight == { r \in Slots : req[r].pc # "idle" }

\* handlers that run on worker threads (plain `def` endpoints): each takes
\* its next step whatever the others are doing
EventLoopFree_threads(r) == TRUE

\* /news and /ask are `async def` and their bodies hold no await: the event
\* loop runs a handler from its first line to its return before it starts or
\* resumes any other
EventLoopFree(r) == \A s \in Slots \ {r} : req[s].pc = "idle"

\* a new request gets the first free frame
FreeFrame(r) == req[r].pc = "idle" /\ \A s \in Slots : s < r => req[s].pc # "idle"

Update(r, f) == req' = [req EXCEPT ![r] = f]

\* `except Exception` of news
NewsCatch(e) ==
    IF "Exception" \in ClassesOf(e)
    THEN [caught |-> TRUE, body |-> [error |-> <<StrOf(e)>>]]
    ELSE [caught |-> FALSE]

\* ask_nvidia with its `except Exception` clause left out
AskCatch_http_only(e) ==
    IF "HTTPError" \in ClassesOf(e)
    THEN [caught |-> TRUE,
          body |-> [error |-> <<"News API HTTP error: ", StrOf(e)>>]]
    ELSE [caught |-> FALSE]

\* the two except clauses of ask_nvidia, in order
AskCatch(e) ==
    IF "HTTPError" \in ClassesOf(e)
    THEN [caught |-> TRUE,
          body |-> [error |-> <<"News API HTTP error: ", StrOf(e)>>]]
    ELSE IF "Exception" \in ClassesOf(e)
    THEN [caught |-> TRUE, body |-> [error |-> <<StrOf(e)>>]]
    ELSE [caught |-> FALSE]

\* the frame after exception e is raised inside the handler's try block
Raised(f, e) ==
    LET c == IF f.ep = "news" THEN NewsCatch(e) ELSE AskCatch(e)
    IN  IF c.caught
        THEN [f EXCEPT !.pc = "done", !.resp = c.body,
                       !.log = f.log \o <<"raise", "return">>]
        ELSE [f EXCEPT !.pc = "crashed", !.log = f.log \o <<"raise">>]

\* summarize_articles without its early return
NeedsCompletion_always(articles) == TRUE

\* `if not articles: return ...` -- only a non-empty list reaches the LLM
NeedsCompletion(articles) == articles # <<>>

\* the direct body with the tag of the other branch
AskDirectResponse_news_tag(answer) == [answer |-> answer, mode |-> "news"]

\* the bodies the handlers return
NewsResponse(summary, arts) == [summary |-> summary, articles |-> arts]
AskDirectResponse(answer) == [answer |-> answer, mode |-> "direct"]

\* the news-mode body without the article list
AskNewsResponse_no_articles(answer, arts) == [answer |-> answer, mode |-> "news"]

AskNewsResponse(answer, arts) ==
    [answer |-> answer, mode |-> "news", articles |-> arts]

----------------------------------------------------------------------------
(* The operations *)

Init ==
    /\ now = 0
    /\ ticks = 0
    /\ cache = <<>>
    /\ origin = <<>>
    /\ req = [r \in Slots |-> IdleFrame]
    /\ probe = <<>>
    /\ verdict = "unset"

\* time passes
TickSteps == {1, CACHE_TTL_SECONDS}

Tick(d) ==
    /\ ticks < MaxTicks
    /\ now' = now + d
    /\ ticks' = ticks + 1
    /\ UNCHANGED <<cache, origin, req, probe, verdict>>

\* POST /news arrives: the handler calls fetch_news with the body's fields
NewsRequest(r, q) ==
    /\ FreeFrame(r)
    /\ EventLoopFree(r)
    /\ Update(r, [IdleFrame EXCEPT !.pc = "get_cache", !.ep = "news", !.q = q])
    /\ UNCHANGED <<now, ticks, cache, origin, probe, verdict>>

\* POST /ask arrives: the classifier picks the branch
AskRequest(r, question) ==
    /\ FreeFrame(r)
    /\ EventLoopFree(r)
    /\ IF looks_like_news_intent(question)
       THEN Update(r, [IdleFrame EXCEPT !.pc = "get_cache", !.ep = "ask",
                          !.question = question, !.mode = "news", !.q = AskArgs])
       ELSE Update(r, [IdleFrame EXCEPT !.pc = "llm_direct", !.ep = "ask",
                          !.question = question, !.mode = "direct"])
    /\ UNCHANGED <<now, ticks, cache, origin, probe, verdict>>

\* fetch_news up to `if cached: return cached`
CacheCheck(r) ==
    LET f == req[r]
        key == CacheKey(f.q)
        cached == get_cache(key)
        seen == IF key \in DOMAIN cache
                THEN [at |-> now, present |-> TRUE, ts |-> cache[key].ts,
                      data |-> cache[key].data, by |-> origin[key]]
                ELSE [NotSeen EXCEPT !.at = now]
        g == [f EXCEPT !.seen = seen, !.log = f.log \o <<"get_cache">>]
    IN  /\ f.pc = "get_cache"
        /\ EventLoopFree(r)
        /\ IF Truthy(cached)
           THEN Update(r, [g EXCEPT !.pc = "summarize", !.arts = cached.data])
           ELSE Update(r, [g EXCEPT !.pc = "requests_get"])
        /\ UNCHANGED <<now, ticks, cache, origin, probe, verdict>>

\* the news API answers 2xx: normalize, store, return
FetchOk(r, raw) ==
    LET f == req[r]
        key == CacheKey(f.q)
        cleaned == Cleaned(raw)
    IN  /\ f.pc = "requests_get"
        /\ EventLoopFree(r)
        /\ cache' = set_cache(key, cleaned)
        /\ origin' = [k \in DOMAIN origin \cup {key} |->
                         IF k = key THEN f.q ELSE origin[k]]
        /\ Update(r, [f EXCEPT !.pc = "summarize", !.arts = cleaned,
                         !.log = f.log \o <<"requests.get", "set_cache">>])
        /\ UNCHANGED <<now, ticks, probe, verdict>>

\* requests.get, raise_for_status or resp.json() raises
FetchFail(r, e) ==
    LET f == req[r]
    IN  /\ f.pc = "requests_get"
        /\ EventLoopFree(r)
        /\ cache' = CacheAfterFailure(CacheKey(f.q))
        /\ Update(r, Raised([f EXCEPT !.log = f.log \o <<"requests.get">>], e))
        /\ UNCHANGED <<now, ticks, origin, probe, verdict>>

\* what the handler does with the summary: /news returns, /ask goes on to blend
AfterSummary(f, summary, calls) ==
    LET g == [f EXCEPT !.news_summary = summary,
                       !.log = f.log \o <<"summarize_articles">> \o calls]
    IN  IF f.ep = "news"
        THEN [g EXCEPT !.pc = "done", !.resp = NewsResponse(summary, f.arts),
                       !.log = g.log \o <<"return">>]
        ELSE [g EXCEPT !.pc = "llm_blend"]

\* summarize_articles on an empty list
SummarizeEmpty(r) ==
    LET f == req[r]
    IN  /\ f.pc = "summarize"
        /\ EventLoopFree(r)
        /\ ~NeedsCompletion(f.arts)
        /\ Update(r, AfterSummary(f, NoArticlesMessage, <<>>))
        /\ UNCHANGED <<now, ticks, cache, origin, probe, verdict>>

\* summarize_articles on articles: the digest goes to the LLM, which answers
SummarizeOk(r, text) ==
    LET f == req[r]
    IN  /\ f.pc = "summarize"
        /\ EventLoopFree(r)
        /\ NeedsCompletion(f.arts)
        /\ Update(r, AfterSummary(f, Strip(text), <<"completion:summary">>))
        /\ UNCHANGED <<now, ticks, cache, origin, probe, verdict>>

\* summarize_articles on articles: the completion call raises
SummarizeFail(r, e) ==
    LET f == req[r]
    IN  /\ f.pc = "summarize"
        /\ EventLoopFree(r)
        /\ NeedsCompletion(f.arts)
        /\ Update(r, Raised([f EXCEPT !.log = f.log \o
                               <<"summarize_articles", "completion:summary">>], e))
        /\ UNCHANGED <<now, ticks, cache, origin, probe, verdict>>

\* the blending completion of ask_nvidia answers
BlendOk(r, text) ==
    LET f == req[r]
    IN  /\ f.pc = "llm_blend"
        /\ EventLoopFree(r)
        /\ Update(r, [f EXCEPT !.pc = "done",
                         !.resp = AskNewsResponse(Strip(text), f.arts),
                         !.log = f.log \o <<"completion:blend", "return">>])
        /\ UNCHANGED <<now, ticks, cache, origin, probe, verdict>>

BlendFail(r, e) ==
    LET f == req[r]
    IN  /\ f.pc = "llm_blend"
        /\ EventLoopFree(r)
        /\ Update(r, Raised([f EXCEPT !.log = f.log \o <<"completion:blend">>], e))
        /\ UNCHANGED <<now, ticks, cache, origin, probe, verdict>>

\* the direct completion of ask_nvidia answers
DirectOk(r, text) ==
    LET f == req[r]
    IN  /\ f.pc = "llm_direct"
        /\ EventLoopFree(r)
        /\ Update(r, [f EXCEPT !.pc = "done",
                         !.resp = AskDirectResponse(Strip(text)),
                         !.log = f.log \o <<"completion:direct", "return">>])
        /\ UNCHANGED <<now, ticks, cache, origin, probe, verdict>>

DirectFail(r, e) ==
    LET f == req[r]
    IN  /\ f.pc = "llm_direct"
        /\ EventLoopFree(r)
        /\ Update(r, Raised([f EXCEPT !.log = f.log \o <<"completion:direct">>], e))
        /\ UNCHANGED <<now, ticks, cache, origin, probe, verdict>>

\* the framework sends the body (or, for an uncaught exception, a 500) and
\* drops the frame
Finish(r) ==
    /\ req[r].pc \in {"done", "crashed"}
    /\ EventLoopFree(r)
    /\ Update(r, IdleFrame)
    /\ UNCHANGED <<now, ticks, cache, origin, probe, verdict>>

Next ==
    \/ \E d \in TickSteps : Tick(d)
    \/ \E r \in Slots, q \in NewsQueries : NewsRequest(r, q)
    \/ \E r \in Slots, question \in Questions : AskRequest(r, question)
    \/ \E r \in Slots : CacheCheck(r)
    \/ \E r \in Slots, raw \in RawResponses : FetchOk(r, raw)
    \/ \E r \in Slots, e \in NewsErrors : FetchFail(r, e)
    \/ \E r \in Slots : SummarizeEmpty(r)
    \/ \E r \in Slots, text \in LlmTexts : SummarizeOk(r, text)
    \/ \E r \in Slots, e \in LlmErrors : SummarizeFail(r, e)
    \/ \E r \in Slots, text \in LlmTexts : BlendOk(r, text)
    \/ \E r \in Slots, e \in LlmErrors : BlendFail(r, e)
    \/ \E r \in Slots, text \in LlmTexts : DirectOk(r, text)
    \/ \E r \in Slots, e \in LlmErrors : DirectFail(r, e)
    \/ \E r \in Slots : Finish(r)

Spec == Init /\ [][Next]_vars

----------------------------------------------------------------------------
(* The classifier on its own, over every short question *)

IntentAlphabet == {"n", "N", "e", "E", "w", "s", "q", "Q", "1", "2"}

ShortQuestions == UNION { [1..n -> IntentAlphabet] : n \in 0..MaxQuestionLen }

InitIntent ==
    /\ now = 0
    /\ ticks = 0
    /\ cache = <<>>
    /\ origin = <<>>
    /\ req = [r \in Slots |-> IdleFrame]
    /\ probe \in ShortQuestions
    /\ verdict = "unset"

Classify ==
    /\ verdict = "unset"
    /\ verdict' = IF looks_like_news_intent(probe) THEN "true" ELSE "false"
    /\ UNCHANGED <<now, ticks, cache, origin, req, probe>>

NextIntent == Classify

SpecIntent == InitIntent /\ [][NextIntent]_vars

----------------------------------------------------------------------------
(* Properties *)

InLog(f, x) == \E i \in 1..Len(f.log) : f.log[i] = x

\* fetch_news has just returned a list to the handler in frame f
FetchReturned(f) == f.pc = "summarize"

\* the list was served from the cache, with no upstream GET
ServedFromCache(f) == FetchReturned(f) /\ ~InLog(f, "requests.get")

\* the handler in frame f has returned a body without any exception raised
Succeeded(f) == f.pc = "done" /\ ~InLog(f, "raise")

\* C1: a fetch_news call that finds, within 180 seconds of its storing, the
\* entry an earlier call with the same parameters stored returns that entry's
\* data and issues no upstream GET (one GET for the two calls); a call that
\* finds the entry older than 180 seconds issues a new GET.
C1_TwoFetchesWithinTtlOneGet ==
    \A r \in Slots :
        LET f == req[r]
        IN  /\ (FetchReturned(f) /\ f.seen.present /\ f.seen.by = f.q
                  /\ f.seen.at - f.seen.ts <= 180)
               => (~InLog(f, "requests.get") /\ f.arts = f.seen.data)
            /\ (FetchReturned(f) /\ f.seen.present /\ f.seen.at - f.seen.ts > 180)
               => InLog(f, "requests.get")

\* the part of C1 the code keeps: the same, for an entry whose list is not empty
C1_HoldsForNonEmptyLists ==
    \A r \in Slots :
        LET f == req[r]
        IN  /\ (FetchReturned(f) /\ f.seen.present /\ f.seen.data # <<>>
                  /\ f.seen.at - f.seen.ts <= 180)
               => (~InLog(f, "requests.get") /\ f.arts = f.seen.data)
            /\ (FetchReturned(f) /\ f.seen.present /\ f.seen.at - f.seen.ts > 180)
               => InLog(f, "requests.get")

\* C2: no exception leaves a handler: when the news fetch or a completion
\* call raises, the handler returns a body whose only key is `error`.
C2_FailuresBecomeErrorBodies ==
    \A r \in Slots :
        LET f == req[r]
        IN  /\ f.pc # "crashed"
            /\ InLog(f, "raise") => (f.pc = "done" /\ DOMAIN f.resp = {"error"})

C2_Witness ==
    \E r \in Slots :
        /\ req[r].ep = "ask"
        /\ req[r].pc = "done"
        /\ InLog(req[r], "completion:blend")
        /\ InLog(req[r], "raise")

\* C3: a successful /ask whose question is not time-sensitive made exactly
\* one completion call and nothing else (no cache read, no upstream GET, no
\* cache write), and its body holds exactly `answer` and `mode`, mode "direct".
C3_DirectModeOneCompletionNoFetch ==
    \A r \in Slots :
        LET f == req[r]
        IN  (f.ep = "ask" /\ ~looks_like_news_intent(f.question) /\ Succeeded(f))
            => /\ f.log = <<"completion:direct", "return">>
               /\ DOMAIN f.resp = {"answer", "mode"}
               /\ f.resp.mode = "direct"

C3_Witness ==
    \E r \in Slots :
        /\ req[r].ep = "ask"
        /\ ~looks_like_news_intent(req[r].question)
        /\ Succeeded(req[r])

\* the list fetch_news returned to the handler in frame f
FetchResult(f) ==
    IF InLog(f, "requests.get") THEN cache[CacheKey(f.q)].data ELSE f.seen.data

NewsModeLogs ==
    { pre \o mid \o <<"completion:blend", "return">> :
        pre \in { <<"get_cache">>, <<"get_cache", "requests.get", "set_cache">> },
        mid \in { <<"summarize_articles">>,
                  <<"summarize_articles", "completion:summary">> } }

\* C4: a successful /ask whose question is time-sensitive fetched news for
\* the fixed query "NVIDIA", then summarized, then made the blending
\* completion, then returned; its body has mode "news" and `articles` equal
\* to the list the fetch returned; and the mode of a request never changes
\* between its entry and its return.
C4_NewsModeOrderAndArticles ==
    /\ [](\A r \in Slots :
            LET f == req[r]
            IN  (f.ep = "ask" /\ looks_like_news_intent(f.question) /\ Succeeded(f))
                => /\ f.q.query = NVIDIA
                   /\ f.log \in NewsModeLogs
                   /\ DOMAIN f.resp = {"answer", "mode", "articles"}
                   /\ f.resp.mode = "news"
                   /\ f.resp.articles = FetchResult(f))
    /\ [][\A r \in Slots :
            (req[r].pc # "idle" /\ req'[r].pc # "idle")
            => req'[r].mode = req[r].mode]_vars

C4_Witness ==
    \E r \in Slots :
        /\ req[r].ep = "ask"
        /\ req[r].mode = "news"
        /\ Succeeded(req[r])
        /\ InLog(req[r], "requests.get")
        /\ req[r].resp.articles # <<>>

\* question q holds keyword k at some place, letter case aside
HoldsKeyword(q, k) ==
    \E i \in 0..(Len(q) - Len(k)) :
        \A j \in 1..Len(k) : LowerChar(q[i + j]) = k[j]

\* C5: the classifier answers true exactly for the questions that hold a
\* listed keyword, in whatever letter case.
C5_ClassifierIffKeyword ==
    verdict # "unset" =>
        (verdict = "true" <=> \E i \in 1..Len(keywords) : HoldsKeyword(probe, keywords[i]))

C5_Witness ==
    /\ verdict = "true"
    /\ probe # Lower(probe)

\* C6: summarize_articles on an empty list gives the fixed message and makes
\* no completion call for the summary.
C6_EmptyListFixedMessageNoCompletion ==
    \A r \in Slots :
        LET f == req[r]
        IN  (InLog(f, "summarize_articles") /\ f.arts = <<>>)
            => /\ ~InLog(f, "completion:summary")
               /\ f.news_summary = NoArticlesMessage

C6_Witness ==
    \E r \in Slots :
        /\ req[r].ep = "ask"
        /\ req[r].pc = "llm_blend"
        /\ req[r].arts = <<>>
        /\ InLog(req[r], "requests.get")

\* every key a request of the model can compute
AllKeys == { CacheKey(q) : q \in NewsQueries \cup {AskArgs} }

\* C7: a cache read yields the stored payload exactly when an entry exists
\* and now - ts <= 180, and nothing otherwise; the read leaves the cache as
\* it is.
C7_ReadValidWithinTtl ==
    /\ [](\A k \in AllKeys :
            get_cache(k) =
                IF k \in DOMAIN cache /\ now - cache[k].ts <= 180
                THEN Some(cache[k].data) ELSE NoneResult)
    /\ [][\A r \in Slots :
            (req[r].pc = "get_cache" /\ req'[r].pc # "get_cache")
            => cache' = cache]_vars

C7_Witness ==
    \E r \in Slots :
        /\ ServedFromCache(req[r])
        /\ req[r].seen.at - req[r].seen.ts = 180

\* every entry is a timestamp not after the present with one cleaned list,
\* stored under the key of the call that fetched it
CacheWellFormed ==
    \A k \in DOMAIN cache :
        /\ cache[k].ts <= now
        /\ cache[k].data \in CleanedLists
        /\ k \in DOMAIN origin
        /\ CacheKey(origin[k]) = k

C9_FailedFetchKeepsCache ==
    [][\A r \in Slots :
         /\ (req[r].pc = "requests_get" /\ InLog(req'[r], "raise")) => cache' = cache
         /\ (req[r].pc = "requests_get" /\ cache' # cache)
            => /\ req'[r].pc = "summarize"
               /\ req'[r].arts \in CleanedLists
               /\ cache'[CacheKey(req[r].q)] = [ts |-> now, data |-> req'[r].arts]
         /\ (cache' # cache) => (\E s \in Slots : req[s].pc = "requests_get")]_vars

C9_Witness ==
    \E r \in Slots :
        LET f == req[r]
        IN  /\ f.pc = "done"
            /\ InLog(f, "requests.get")
            /\ InLog(f, "raise")
            /\ f.seen.present
            /\ f.seen.at - f.seen.ts > 180
            /\ cache[CacheKey(f.q)] = [ts |-> f.seen.ts, data |-> f.seen.data]

\* C10: a list served from the cache was stored by a call with the same
\* (query, days, page_size, language).
C10_CachedListOnlyForSameParameters ==
    \A r \in Slots :
        ServedFromCache(req[r]) => req[r].seen.by = req[r].q

============================================================================
